---- MODULE Spec2Model ----
(***************************************************************************)
(* Model of macosx/tkMacOSXSysTray.c: the "_systray" and "_sysnotify" Tcl  *)
(* commands, the TkStatusItem and TkNotifyItem adapters they drive, the    *)
(* click callback, and module initialisation / command deletion.           *)
(*                                                                         *)
(* C strings are sequences of bytes (without the terminating NUL, which    *)
(* CharAt supplies).  NSString values are records holding the decoded code *)
(* points; nil is the record with isNil = TRUE.                            *)
(***************************************************************************)
EXTENDS Integers, Sequences, FiniteSets, TLC

VARIABLES
    pc,             \* "start" before MacSystrayInit, "ready" after, "crashed"
    macOSVersion,   \* [NSApp macOSVersion] of the host
    commands,       \* command names registered in the interpreter
    tk_item,        \* the TkStatusItem singleton and its status-bar entry
    callbackproc,   \* char *callbackproc: 0 (NULL) or the address of a caller's buffer
    cbmem,          \* the bytes currently stored at address callbackproc
    imageLeaked,    \* a Tk_Image obtained by Tk_GetImage was never freed
    notify_item,    \* the TkNotifyItem singleton
    center,         \* the shared NSUserNotificationCenter
    cbsrc,          \* history: the callback script handed over by the latest create
    last            \* history: the last operation, its arguments, result and pre-state

vars == <<pc, macOSVersion, commands, tk_item, callbackproc, cbmem, imageLeaked,
          notify_item, center, cbsrc, last>>

(***************************************************************************)
(* Bounds of the model.                                                    *)
(***************************************************************************)
\* removeStatusItem calls after which no further dispose is explored
MaxDispose == 2
\* notifications delivered after which no further post is explored
MaxPosts == 2

\* the version test of MacSystrayInit
MinVersion == 101000

\* the addresses a caller's value argument can be placed at
Addr == {1, 2}
Versions == {MinVersion - 1, MinVersion}
ClickCounts == {1, 2}

(***************************************************************************)
(* C strings used as inputs (bytes).                                       *)
(***************************************************************************)
S_systray   == <<95, 115, 121, 115, 116, 114, 97, 121>>            \* "_systray"
S_sysnotify == <<95, 115, 121, 115, 110, 111, 116, 105, 102, 121>> \* "_sysnotify"
S_create    == <<99, 114, 101, 97, 116, 101>>                      \* "create"
S_modify    == <<109, 111, 100, 105, 102, 121>>                    \* "modify"
S_destroy   == <<100, 101, 115, 116, 114, 111, 121>>               \* "destroy"
S_image     == <<105, 109, 97, 103, 101>>                          \* "image"
S_text      == <<116, 101, 120, 116>>                              \* "text"
S_callback  == <<99, 97, 108, 108, 98, 97, 99, 107>>               \* "callback"

S_A   == <<65>>          \* "A"
S_B   == <<66>>          \* "B"
S_E9  == <<195, 169>>    \* U+00E9 in UTF-8
S_BAD == <<192, 128>>    \* Tcl's internal encoding of U+0000: not valid UTF-8
S_W   == <<87>>          \* "W"
S_H   == <<72>>          \* "H"
S_N   == <<78>>          \* "N"

(***************************************************************************)
(* libc string functions, as MacSystrayCmd calls them.                     *)
(***************************************************************************)
\* the byte at 1-based position i of a C string; the terminator past its end
CharAt(s, i) == IF i <= Len(s) THEN s[i] ELSE 0

strlen(s) == Len(s)

RECURSIVE strncmpFrom(_, _, _, _)
strncmpFrom(s1, s2, n, i) ==
    IF i > n THEN 0
    ELSE LET c1 == CharAt(s1, i)
             c2 == CharAt(s2, i)
         IN  IF c1 # c2 THEN c1 - c2
             ELSE IF c1 = 0 THEN 0
             ELSE strncmpFrom(s1, s2, n, i + 1)

strncmp(s1, s2, n) == strncmpFrom(s1, s2, n, 1)

strcmp(s1, s2) == strncmpFrom(s1, s2, Len(s1) + Len(s2) + 1, 1)

(***************************************************************************)
(* +[NSString stringWithUTF8String:]: decodes UTF-8, nil when the bytes    *)
(* are not valid UTF-8.                                                    *)
(***************************************************************************)
NilString == [isNil |-> TRUE, chars |-> <<>>]

IsCont(bytes, i) == i <= Len(bytes) /\ bytes[i] >= 128 /\ bytes[i] <= 191

\* the code point starting at byte i and the number of bytes it takes (0: invalid)
DecodeAt(bytes, i) ==
    LET b  == bytes[i]
        c1 == bytes[i + 1] - 128
        c2 == bytes[i + 2] - 128
        c3 == bytes[i + 3] - 128
    IN  IF b < 128 THEN [n |-> 1, cp |-> b]
        ELSE IF b >= 194 /\ b <= 223 /\ IsCont(bytes, i + 1)
             THEN [n |-> 2, cp |-> (b - 192) * 64 + c1]
        ELSE IF b >= 224 /\ b <= 239 /\ IsCont(bytes, i + 1) /\ IsCont(bytes, i + 2)
             THEN LET cp == (b - 224) * 4096 + c1 * 64 + c2
                  IN  IF cp < 2048 \/ (cp >= 55296 /\ cp <= 57343)
                      THEN [n |-> 0, cp |-> 0]
                      ELSE [n |-> 3, cp |-> cp]
        ELSE IF b >= 240 /\ b <= 244 /\ IsCont(bytes, i + 1) /\ IsCont(bytes, i + 2)
                /\ IsCont(bytes, i + 3)
             THEN LET cp == (b - 240) * 262144 + c1 * 4096 + c2 * 64 + c3
                  IN  IF cp < 65536 \/ cp > 1114111
                      THEN [n |-> 0, cp |-> 0]
                      ELSE [n |-> 4, cp |-> cp]
        ELSE [n |-> 0, cp |-> 0]

RECURSIVE DecodeFrom(_, _, _)
DecodeFrom(bytes, i, acc) ==
    IF i > Len(bytes) THEN [isNil |-> FALSE, chars |-> acc]
    ELSE LET d == DecodeAt(bytes, i)
         IN  IF d.n = 0 THEN NilString
             ELSE DecodeFrom(bytes, i + d.n, Append(acc, d.cp))

stringWithUTF8String(bytes) == DecodeFrom(bytes, 1, <<>>)

(***************************************************************************)
(* Tk images.  Tk_GetImage resolves a name to an image handle or NULL;     *)
(* Tk_SizeOfImage gives its size; TkMacOSXGetNSImageFromTkImage renders    *)
(* it into an NSImage of that size.                                        *)
(***************************************************************************)
NilImage == [isNil |-> TRUE, name |-> <<>>, width |-> 0, height |-> 0]

NullTkImage == [isNull |-> TRUE, name |-> <<>>, width |-> 0, height |-> 0]

\* the images that exist in the interpreter: "A" 16x16, "B" 32x32, "W" 0x16, "H" 16x0
Tk_GetImage(name) ==
    IF name = S_A THEN [isNull |-> FALSE, name |-> name, width |-> 16, height |-> 16]
    ELSE IF name = S_B THEN [isNull |-> FALSE, name |-> name, width |-> 32, height |-> 32]
    ELSE IF name = S_W THEN [isNull |-> FALSE, name |-> name, width |-> 0, height |-> 16]
    ELSE IF name = S_H THEN [isNull |-> FALSE, name |-> name, width |-> 16, height |-> 0]
    ELSE NullTkImage

TkMacOSXGetNSImageFromTkImage(tk_image, width, height) ==
    [isNil |-> FALSE, name |-> tk_image.name, width |-> width, height |-> height]

(***************************************************************************)
(* TkStatusItem.                                                           *)
(***************************************************************************)
\* the global tk_item before MacSystrayInit has run
NoStatusItem ==
    [alloc |-> FALSE, icon |-> NilImage, tooltip |-> NilString,
     buttonImage |-> NilImage, buttonToolTip |-> NilString,
     visible |-> FALSE, inBar |-> FALSE, removeCalls |-> 0]

\* -[TkStatusItem init]
StatusItemInit ==
    [alloc |-> TRUE, icon |-> NilImage, tooltip |-> NilString,
     buttonImage |-> NilImage, buttonToolTip |-> NilString,
     visible |-> TRUE, inBar |-> TRUE, removeCalls |-> 0]

\* -[TkStatusItem setImagewithImage:]
setImagewithImage(item, image) ==
    [item EXCEPT !.icon = image, !.buttonImage = image]

\* setTextwithString as a copy of setImagewithImage that still resets icon
setTextwithString_ResetsIcon(item, string) ==
    [item EXCEPT !.icon = NilImage, !.tooltip = string, !.buttonToolTip = string]

\* -[TkStatusItem setTextwithString:]
setTextwithString(item, string) ==
    [item EXCEPT !.tooltip = string, !.buttonToolTip = string]

\* -[TkStatusItem dealloc]: removes the entry from the status bar; it does not
\* call [super dealloc], so the object and its fields stay as they are
StatusItemDealloc(item) ==
    [item EXCEPT !.inBar = FALSE, !.removeCalls = @ + 1]

(***************************************************************************)
(* MacSystrayCmd.  t is the state the command works on:                    *)
(* [item, callbackproc, cbmem, leaked]; argv[k] of the C code is           *)
(* Arg(argv, k); a is the address of the caller's buffer that holds the    *)
(* value argument argv[argc - 1].                                          *)
(***************************************************************************)
Arg(argv, k) == argv[k + 1]

M_createArgs   == " wrong # args: should be \"systray create image ? text? callback?\""
M_modifyArgs   == "wrong # args: should be \"systray modify object item?\""
M_image        == " unable to obtain image for systray icon"
M_tooltip      == " unable to set tooltip for systray icon"
M_callback     == " unable to get the callback for systray icon"
\* what Tk_GetImage leaves in the interpreter result when the name is unknown
M_TkNoImage    == "image doesn't exist"

Out(t, code, msg, branch, sent) ==
    [t |-> t, code |-> code, msg |-> msg, branch |-> branch, sent |-> sent]

\* the subcommand test without its minimum length
SubcommandIs_NoMinLength(word, sub) == strncmp(word, sub, strlen(word)) = 0

\* (strncmp(argv[1], sub, length) == 0) && (length >= 2)
SubcommandIs(word, sub) ==
    strncmp(word, sub, strlen(word)) = 0 /\ strlen(word) >= 2

\* the item test written like the subcommand test, as a prefix comparison
ItemIs_Prefix(modifyitem, name) == strncmp(modifyitem, name, strlen(modifyitem)) = 0

\* strcmp(modifyitem, name) == 0
ItemIs(modifyitem, name) == strcmp(modifyitem, name) = 0

\* the size test with || for &&
SizeOk_Either(width, height) == width # 0 \/ height # 0

\* width != 0 && height != 0
SizeOk(width, height) == width # 0 /\ height # 0

\* the image step clearing the displayed image before it reports a failed lookup
ImageStep_ClearsOnFailure(t, name, freeAlways) ==
    LET tk_image == Tk_GetImage(name)
    IN  IF tk_image.isNull
        THEN [t |-> [t EXCEPT !.item = [@ EXCEPT !.icon = NilImage,
                                                 !.buttonImage = NilImage]],
              failed |-> TRUE, sent |-> <<"setImagewithImage">>]
        ELSE IF tk_image.width # 0 /\ tk_image.height # 0
        THEN [t |-> [t EXCEPT !.item = [@ EXCEPT !.icon = TkMacOSXGetNSImageFromTkImage(
                                                     tk_image, tk_image.width,
                                                     tk_image.height),
                                                 !.buttonImage = TkMacOSXGetNSImageFromTkImage(
                                                     tk_image, tk_image.width,
                                                     tk_image.height)]],
              failed |-> FALSE, sent |-> <<"setImagewithImage">>]
        ELSE [t |-> [t EXCEPT !.leaked = @ \/ ~freeAlways],
              failed |-> FALSE, sent |-> <<>>]

\* Tk_GetImage, Tk_SizeOfImage, conversion, setImagewithImage, Tk_FreeImage.
\* freeAlways: Tk_FreeImage stands after the size test (modify) rather than
\* inside it (create).
ImageStep(t, name, freeAlways) ==
    LET tk_image == Tk_GetImage(name)
    IN  IF tk_image.isNull
        THEN [t |-> t, failed |-> TRUE, sent |-> <<>>]
        ELSE IF SizeOk(tk_image.width, tk_image.height)
        THEN LET icon == TkMacOSXGetNSImageFromTkImage(tk_image, tk_image.width,
                                                       tk_image.height)
             IN  [t |-> [t EXCEPT !.item = setImagewithImage(@, icon)],
                  failed |-> FALSE, sent |-> <<"setImagewithImage">>]
        ELSE [t |-> [t EXCEPT !.leaked = @ \/ ~freeAlways],
              failed |-> FALSE, sent |-> <<>>]

\* the tooltip step setting the text before it tests the conversion
TooltipStep_SetsBeforeTest(t, bytes) ==
    [t |-> [t EXCEPT !.item = [@ EXCEPT !.tooltip = stringWithUTF8String(bytes),
                                        !.buttonToolTip = stringWithUTF8String(bytes)]],
     failed |-> stringWithUTF8String(bytes).isNil,
     sent |-> <<"setTextwithString">>]

\* stringWithUTF8String, the nil test, setTextwithString
TooltipStep(t, bytes) ==
    LET tooltip == stringWithUTF8String(bytes)
    IN  IF tooltip.isNil
        THEN [t |-> t, failed |-> TRUE, sent |-> <<>>]
        ELSE [t |-> [t EXCEPT !.item = setTextwithString(@, tooltip)],
              failed |-> FALSE, sent |-> <<"setTextwithString">>]

\* callbackproc = (char*) arg; the NULL test follows the assignment
CallbackStep(t, ptr, bytes) ==
    [t |-> [t EXCEPT !.callbackproc = ptr, !.cbmem = bytes],
     failed |-> (ptr = 0), sent |-> <<>>]

CreateBranch(t, argc, argv, a) ==
    IF argc < 5 THEN Out(t, "TCL_ERROR", <<M_createArgs>>, "create", <<>>)
    ELSE
    LET img == ImageStep(t, Arg(argv, 2), FALSE)
    IN  IF img.failed
        THEN Out(img.t, "TCL_ERROR", <<M_TkNoImage, M_image>>, "create", img.sent)
        ELSE
        LET tip == TooltipStep(img.t, Arg(argv, 3))
        IN  IF tip.failed
            THEN Out(tip.t, "TCL_ERROR", <<M_tooltip>>, "create", img.sent \o tip.sent)
            ELSE
            LET cb == CallbackStep(tip.t, a, Arg(argv, 4))
            IN  IF cb.failed
                THEN Out(cb.t, "TCL_ERROR", <<M_callback>>, "create",
                         img.sent \o tip.sent)
                ELSE Out(cb.t, "TCL_OK", <<>>, "create", img.sent \o tip.sent)

ModifyBranch(t, argc, argv, a) ==
    IF argc < 4 THEN Out(t, "TCL_ERROR", <<M_modifyArgs>>, "modify", <<>>)
    ELSE
    LET modifyitem == Arg(argv, 2)
        img == IF ItemIs(modifyitem, S_image)
               THEN ImageStep(t, Arg(argv, 3), TRUE)
               ELSE [t |-> t, failed |-> FALSE, sent |-> <<>>]
    IN  IF img.failed
        THEN Out(img.t, "TCL_ERROR", <<M_TkNoImage, M_image>>, "modify", img.sent)
        ELSE
        LET tip == IF ItemIs(modifyitem, S_text)
                   THEN TooltipStep(img.t, Arg(argv, 3))
                   ELSE [t |-> img.t, failed |-> FALSE, sent |-> <<>>]
        IN  IF tip.failed
            THEN Out(tip.t, "TCL_ERROR", <<M_tooltip>>, "modify", img.sent \o tip.sent)
            ELSE
            LET cb == IF ItemIs(modifyitem, S_callback)
                      THEN CallbackStep(tip.t, a, Arg(argv, 3))
                      ELSE [t |-> tip.t, failed |-> FALSE, sent |-> <<>>]
            IN  IF cb.failed
                THEN Out(cb.t, "TCL_ERROR", <<M_callback>>, "modify",
                         img.sent \o tip.sent)
                ELSE Out(cb.t, "TCL_OK", <<>>, "modify", img.sent \o tip.sent)

DestroyBranch(t) ==
    Out([t EXCEPT !.item = StatusItemDealloc(@)], "TCL_OK", <<>>, "destroy",
        <<"dealloc">>)

\* the body of MacSystrayCmd: the else-if chain over argv[1]
SystrayBody(t, argc, argv, a) ==
    IF SubcommandIs(Arg(argv, 1), S_create) THEN CreateBranch(t, argc, argv, a)
    ELSE IF SubcommandIs(Arg(argv, 1), S_modify) THEN ModifyBranch(t, argc, argv, a)
    ELSE IF SubcommandIs(Arg(argv, 1), S_destroy) THEN DestroyBranch(t)
    ELSE Out(t, "TCL_OK", <<>>, "none", <<>>)

\* The argv strings belong to the caller and are released when the command
\* returns.  The caller of a later command may place its value argument in
\* the memory callbackproc still points at.
PlaceArgv(t, argc, argv, a) ==
    IF argc >= 4 /\ t.callbackproc = a
    THEN [t EXCEPT !.cbmem = Arg(argv, argc - 1)]
    ELSE t

(***************************************************************************)
(* TkNotifyItem and the notification center.                               *)
(***************************************************************************)
NoNotifyItem ==
    [alloc |-> FALSE, descriptor |-> FALSE, header |-> NilString, info |-> NilString,
     title |-> NilString, informativeText |-> NilString, soundName |-> "none"]

\* -[TkNotifyItem init]
NotifyItemInit == [NoNotifyItem EXCEPT !.alloc = TRUE, !.descriptor = TRUE]

\* -[TkNotifyItem postNotificationWithTitle:message:]; c is the center
postNotification(n, c, title, detail) ==
    LET n2 == [n EXCEPT !.header = title, !.title = title,
                        !.info = detail, !.informativeText = detail,
                        !.soundName = "NSUserNotificationDefaultSoundName"]
    IN  [n |-> n2,
         c |-> [delegate  |-> "notify_item",
                delivered |-> Append(c.delivered,
                                     [title |-> n2.title,
                                      informativeText |-> n2.informativeText,
                                      soundName |-> n2.soundName])]]

\* -[TkNotifyItem dealloc]
NotifyItemDealloc(n) == [n EXCEPT !.descriptor = FALSE]

M_notifyArgs1 == "wrong # args,must be:"
M_notifyArgs2 == " title  message "

\* the body of SysNotifyCmd
SysNotifyBody(n, c, argc, argv) ==
    IF argc < 3
    THEN [n |-> n, c |-> c, code |-> "TCL_ERROR",
          msg |-> <<M_notifyArgs1, "argv[0]", M_notifyArgs2>>]
    ELSE LET title   == stringWithUTF8String(Arg(argv, 1))
             message == stringWithUTF8String(Arg(argv, 2))
             p       == postNotification(n, c, title, message)
         IN  [n |-> p.n, c |-> p.c, code |-> "TCL_OK", msg |-> <<>>]

(***************************************************************************)
(* Inputs.                                                                 *)
(***************************************************************************)
Subcommands == {S_create, S_modify, S_destroy}
ImageNames  == {S_A, S_B, S_W, S_H, S_N}
TipBytes    == {S_A, S_E9, S_BAD}
Scripts     == {S_A, S_B}

\* argv[1] candidates: every prefix of a subcommand, a subcommand with one more
\* byte, prefixes with one byte replaced, and upper-case spellings
SubWords ==
    UNION {{SubSeq(S, 1, n) : n \in 0..Len(S)} : S \in Subcommands}
    \cup {Append(S, c) : S \in Subcommands, c \in {101, 120}}
    \cup UNION {UNION {{[SubSeq(S, 1, n) EXCEPT ![i] = 120] : i \in 1..n} :
                       n \in 2..Len(S)} : S \in Subcommands}
    \cup {<<67, 82>>, <<67, 114, 101, 97, 116, 101>>}

\* argv[2] candidates of modify that are none of image, text, callback:
\* "imag", "images", "Text", "icon", ""
OtherItems ==
    {<<105, 109, 97, 103>>, <<105, 109, 97, 103, 101, 115>>, <<84, 101, 120, 116>>,
     <<105, 99, 111, 110>>, <<>>}

\* _systray invocations that only differ in the subcommand word
MatchInvocations == {<<S_systray, w>> : w \in SubWords}

SystrayInvocations ==
    {<<S_systray, S_create, i, t, S_A>> : i \in ImageNames, t \in TipBytes}
    \cup {<<S_systray, S_create, S_A, S_A, S_B>>}
    \cup {<<S_systray, <<99, 114>>, S_B, S_E9, S_B>>}
    \cup {<<S_systray, S_create, S_N>>, <<S_systray, S_create, S_A, S_A>>}
    \cup {<<S_systray, S_modify, S_image, i>> : i \in ImageNames}
    \cup {<<S_systray, S_modify, S_text, t>> : t \in TipBytes}
    \cup {<<S_systray, S_modify, S_callback, c>> : c \in Scripts}
    \cup {<<S_systray, S_modify, w, S_B>> : w \in OtherItems}
    \cup {<<S_systray, <<109, 111>>, S_text, S_A>>}
    \cup {<<S_systray, S_modify, S_image>>}
    \cup {<<S_systray, S_destroy>>, <<S_systray, <<100>>>>, <<S_systray>>}

\* where the caller may have put the value argument argv[argc - 1]; with fewer
\* than four arguments there is none
ValueAddrs(argv) == IF Len(argv) >= 4 THEN Addr ELSE {1}

SysNotifyInvocations ==
    {<<S_sysnotify>>}
    \cup {<<S_sysnotify, t>> : t \in TipBytes}
    \cup {<<S_sysnotify, t, m>> : t \in TipBytes, m \in TipBytes}
    \cup {<<S_sysnotify, S_A, S_E9, S_B>>}

(***************************************************************************)
(* State machine.                                                          *)
(***************************************************************************)
Pre ==
    [icon |-> tk_item.icon, tooltip |-> tk_item.tooltip,
     callbackproc |-> callbackproc, removeCalls |-> tk_item.removeCalls,
     header |-> notify_item.header, info |-> notify_item.info,
     posts |-> Len(center.delivered)]

NoEval == [did |-> FALSE, script |-> <<>>]

Last(op, argv, code, msg, branch, sent, count, evaluated) ==
    [op |-> op, argv |-> argv, code |-> code, msg |-> msg, branch |-> branch,
     sent |-> sent, count |-> count, evaluated |-> evaluated, pre |-> Pre]

Init ==
    /\ pc = "start"
    /\ macOSVersion \in Versions
    /\ commands = {}
    /\ tk_item = NoStatusItem
    /\ callbackproc = 0
    /\ cbmem = <<>>
    /\ imageLeaked = FALSE
    /\ notify_item = NoNotifyItem
    /\ center = [delegate |-> "none", delivered |-> <<>>]
    /\ cbsrc = [set |-> FALSE, script |-> <<>>]
    /\ last = [op |-> "none", argv |-> <<>>, code |-> "TCL_OK", msg |-> <<>>,
               branch |-> "none", sent |-> <<>>, count |-> 0, evaluated |-> NoEval,
               pre |-> [icon |-> NilImage, tooltip |-> NilString, callbackproc |-> 0,
                        removeCalls |-> 0, header |-> NilString, info |-> NilString,
                        posts |-> 0]]

\* the commands MacSystrayInit registers on a host of the given version
RegisteredAtInit(version) ==
    IF version < MinVersion THEN {} ELSE {"_systray", "_sysnotify"}

M_oldVersion == "Statusitem icons not supported on versions of macOS lower than 10.10"

MacSystrayInit ==
    /\ pc = "start"
    /\ pc' = "ready"
    /\ tk_item' = StatusItemInit
    /\ notify_item' = NotifyItemInit
    /\ commands' = RegisteredAtInit(macOSVersion)
    /\ last' = Last("init", <<>>, "TCL_OK",
                    IF macOSVersion < MinVersion THEN <<M_oldVersion>> ELSE <<>>,
                    "none", <<>>, 0, NoEval)
    /\ UNCHANGED <<macOSVersion, callbackproc, cbmem, imageLeaked, center, cbsrc>>

\* the script invokes _systray with the arguments argv; the caller's buffer
\* for the value argument is at address a.  Without a subcommand word argv[1]
\* is the NULL that ends argv, and strlen(argv[1]) faults.
MacSystrayCmd(argv, a) ==
    /\ pc = "ready"
    /\ "_systray" \in commands
    /\ IF Len(argv) < 2
       THEN /\ pc' = "crashed"
            /\ last' = Last("fault", argv, "TCL_OK", <<>>, "none", <<>>, 0, NoEval)
            /\ UNCHANGED <<tk_item, callbackproc, cbmem, imageLeaked, cbsrc>>
       ELSE \E out \in {SystrayBody(PlaceArgv([item |-> tk_item,
                                               callbackproc |-> callbackproc,
                                               cbmem |-> cbmem, leaked |-> imageLeaked],
                                              Len(argv), argv, a),
                                    Len(argv), argv, a)} :
            /\ out.t.item.removeCalls <= MaxDispose
            /\ pc' = pc
            /\ tk_item' = out.t.item
            /\ callbackproc' = out.t.callbackproc
            /\ cbmem' = out.t.cbmem
            /\ imageLeaked' = out.t.leaked
            /\ cbsrc' = IF out.branch = "create" /\ out.code = "TCL_OK"
                        THEN [set |-> TRUE, script |-> Arg(argv, 4)]
                        ELSE IF out.branch = "modify" /\ Len(argv) >= 4
                                /\ Arg(argv, 2) = S_callback
                        THEN [set |-> FALSE, script |-> <<>>]
                        ELSE cbsrc
            /\ last' = Last("systray", argv, out.code, out.msg, out.branch, out.sent,
                            0, NoEval)
    /\ UNCHANGED <<macOSVersion, commands, notify_item, center>>

\* the user clicks the status-bar entry: -[TkStatusItem clickOnStatusItem:]
clickOnStatusItem(clickCount) ==
    /\ pc = "ready"
    /\ tk_item.inBar
    /\ IF clickCount = 1
       THEN IF callbackproc = 0
            THEN /\ pc' = "crashed"
                 /\ last' = Last("click", <<>>, "TCL_OK", <<>>, "none", <<>>,
                                 clickCount, NoEval)
            ELSE /\ pc' = pc
                 /\ last' = Last("click", <<>>, "TCL_OK", <<>>, "none", <<>>,
                                 clickCount, [did |-> TRUE, script |-> cbmem])
       ELSE /\ pc' = pc
            /\ last' = Last("click", <<>>, "TCL_OK", <<>>, "none", <<>>,
                            clickCount, NoEval)
    /\ UNCHANGED <<macOSVersion, commands, tk_item, callbackproc, cbmem, imageLeaked,
                   notify_item, center, cbsrc>>

\* the _systray command is deleted (interpreter teardown): MacSystrayDestroy
MacSystrayDestroy ==
    /\ pc = "ready"
    /\ "_systray" \in commands
    /\ tk_item.removeCalls < MaxDispose
    /\ commands' = commands \ {"_systray"}
    /\ tk_item' = StatusItemDealloc(tk_item)
    /\ last' = Last("delete", <<>>, "TCL_OK", <<>>, "none", <<"dealloc">>, 0, NoEval)
    /\ UNCHANGED <<pc, macOSVersion, callbackproc, cbmem, imageLeaked, notify_item,
                   center, cbsrc>>

\* the script invokes _sysnotify with the arguments argv
SysNotifyCmd(argv) ==
    /\ pc = "ready"
    /\ "_sysnotify" \in commands
    /\ \E out \in {SysNotifyBody(notify_item, center, Len(argv), argv)} :
           /\ Len(out.c.delivered) <= MaxPosts
           /\ notify_item' = out.n
           /\ center' = out.c
           /\ last' = Last("sysnotify", argv, out.code, out.msg, "none", <<>>, 0, NoEval)
    /\ UNCHANGED <<pc, macOSVersion, commands, tk_item, callbackproc, cbmem,
                   imageLeaked, cbsrc>>

\* the _sysnotify command is deleted: SysNotifyDeleteCmd
SysNotifyDeleteCmd ==
    /\ pc = "ready"
    /\ "_sysnotify" \in commands
    /\ commands' = commands \ {"_sysnotify"}
    /\ notify_item' = NotifyItemDealloc(notify_item)
    /\ last' = Last("notifydelete", <<>>, "TCL_OK", <<>>, "none", <<>>, 0, NoEval)
    /\ UNCHANGED <<pc, macOSVersion, tk_item, callbackproc, cbmem, imageLeaked,
                   center, cbsrc>>

\* the status-bar side of the program: initialisation, _systray, clicks, teardown
Next ==
    \/ MacSystrayInit
    \/ \E argv \in SystrayInvocations : \E a \in ValueAddrs(argv) : MacSystrayCmd(argv, a)
    \/ \E clickCount \in ClickCounts : clickOnStatusItem(clickCount)
    \/ MacSystrayDestroy

Spec == Init /\ [][Next]_vars

\* the notification side of the program: initialisation, _sysnotify, teardown
NextNotify ==
    \/ MacSystrayInit
    \/ \E argv \in SysNotifyInvocations : SysNotifyCmd(argv)
    \/ SysNotifyDeleteCmd

SpecNotify == Init /\ [][NextNotify]_vars

\* subcommand matching alone: _systray invoked with every candidate word
NextMatch ==
    \/ MacSystrayInit
    \/ \E argv \in MatchInvocations : \E a \in ValueAddrs(argv) : MacSystrayCmd(argv, a)

SpecMatch == Init /\ [][NextMatch]_vars

(***************************************************************************)
(* Vocabulary of the properties.                                           *)
(***************************************************************************)
IsPrefixOf(w, S) == Len(w) <= Len(S) /\ SubSeq(S, 1, Len(w)) = w

\* the word names the subcommand S: a prefix of it, at least two bytes long
Selects(w, S) == Len(w) >= 2 /\ IsPrefixOf(w, S)

BranchName(S) ==
    IF S = S_create THEN "create" ELSE IF S = S_modify THEN "modify" ELSE "destroy"

Tray     == last.op = "systray"
Argc     == Len(last.argv)
IsCreate == Tray /\ Selects(Arg(last.argv, 1), S_create)
IsModify == Tray /\ Selects(Arg(last.argv, 1), S_modify)

\* the NSImage a resolvable image name stands for
ImageOf(name) ==
    [isNil |-> FALSE, name |-> name, width |-> Tk_GetImage(name).width,
     height |-> Tk_GetImage(name).height]

Resolves(name)  == ~Tk_GetImage(name).isNull
ZeroArea(name)  == Resolves(name)
                   /\ (Tk_GetImage(name).width = 0 \/ Tk_GetImage(name).height = 0)
Converts(bytes) == ~stringWithUTF8String(bytes).isNil

FieldsUnchanged ==
    /\ tk_item.icon = last.pre.icon
    /\ tk_item.tooltip = last.pre.tooltip
    /\ callbackproc = last.pre.callbackproc

SentSet == {last.sent[i] : i \in 1..Len(last.sent)}

(***************************************************************************)
(* C1: every create with at least five arguments, a resolvable image and a *)
(* convertible tooltip returns TCL_OK and leaves the image resolved from   *)
(* argv[2], the tooltip argv[3] and the callback string argv[4]; after it  *)
(* a click with click count 1 evaluates exactly that callback string, and  *)
(* a click with another count evaluates nothing.                           *)
(***************************************************************************)
C1_CreateSetsAll ==
    /\ (IsCreate /\ Argc >= 5 /\ Resolves(Arg(last.argv, 2))
            /\ Converts(Arg(last.argv, 3)))
       => /\ last.code = "TCL_OK"
          /\ tk_item.icon = ImageOf(Arg(last.argv, 2))
          /\ tk_item.tooltip = stringWithUTF8String(Arg(last.argv, 3))
          /\ callbackproc # 0
          /\ cbmem = Arg(last.argv, 4)
    /\ (last.op = "click" /\ cbsrc.set)
       => IF last.count = 1
          THEN last.evaluated = [did |-> TRUE, script |-> cbsrc.script]
          ELSE ~last.evaluated.did

C3_UnresolvedImage ==
    /\ (IsCreate /\ Argc >= 3 /\ ~Resolves(Arg(last.argv, 2)))
       => /\ last.code = "TCL_ERROR"
          /\ tk_item.icon = last.pre.icon
          /\ (Argc >= 5 => last.msg = <<M_TkNoImage, M_image>>)
    /\ (IsModify /\ Argc >= 4 /\ Arg(last.argv, 2) = S_image
            /\ ~Resolves(Arg(last.argv, 3)))
       => /\ last.code = "TCL_ERROR"
          /\ tk_item.icon = last.pre.icon
          /\ last.msg = <<M_TkNoImage, M_image>>

\* a create with an unknown image name has failed on an item that shows an image
C3_Witness ==
    /\ IsCreate /\ Argc >= 5 /\ ~Resolves(Arg(last.argv, 2))
    /\ last.code = "TCL_ERROR"
    /\ ~last.pre.icon.isNil
    /\ tk_item.icon = last.pre.icon

(***************************************************************************)
(* C4: on a host older than the minimum version, initialisation does not   *)
(* register _systray, returns the warning, and still registers _sysnotify. *)
(***************************************************************************)
C4_OldVersionInit ==
    (last.op = "init" /\ macOSVersion < MinVersion)
    => /\ "_systray" \notin commands
       /\ last.msg = <<M_oldVersion>>
       /\ "_sysnotify" \in commands

(***************************************************************************)
(* C5: _sysnotify with exactly two arguments returns TCL_OK, leaves the    *)
(* adapter holding that title and that message and delivers exactly one    *)
(* notification; with fewer it returns TCL_ERROR with the usage hint and   *)
(* changes neither the adapter's title and message nor the deliveries.     *)
(***************************************************************************)
C5_Notify ==
    last.op = "sysnotify"
    => /\ Argc = 3
          => /\ last.code = "TCL_OK"
             /\ ~notify_item.header.isNil
             /\ notify_item.header = stringWithUTF8String(Arg(last.argv, 1))
             /\ ~notify_item.info.isNil
             /\ notify_item.info = stringWithUTF8String(Arg(last.argv, 2))
             /\ Len(center.delivered) = last.pre.posts + 1
       /\ Argc < 3
          => /\ last.code = "TCL_ERROR"
             /\ last.msg = <<M_notifyArgs1, "argv[0]", M_notifyArgs2>>
             /\ notify_item.header = last.pre.header
             /\ notify_item.info = last.pre.info
             /\ Len(center.delivered) = last.pre.posts

(***************************************************************************)
(* C6: the word argv[1] selects the subcommand S exactly when it is a      *)
(* case-sensitive prefix of S at least two bytes long; "c" selects         *)
(* nothing, "cr" selects create, and no word selects two subcommands.      *)
(***************************************************************************)
C6_PrefixMatch ==
    Tray => /\ \A S \in Subcommands :
                 (last.branch = BranchName(S)) <=> Selects(Arg(last.argv, 1), S)
            /\ Cardinality({S \in Subcommands : Selects(Arg(last.argv, 1), S)}) <= 1
            /\ (Arg(last.argv, 1) = <<99>> => last.branch = "none")
            /\ (Arg(last.argv, 1) = <<99, 114>> => last.branch = "create")

\* _systray cr has taken the create branch
C6_Witness ==
    Tray /\ Arg(last.argv, 1) = <<99, 114>> /\ last.branch = "create"

(***************************************************************************)
(* C7: a create or a modify image whose image has width 0 or height 0      *)
(* leaves the image as it was, and the image step raises no error: the     *)
(* modify succeeds, and the create can only fail at its tooltip step.      *)
(***************************************************************************)
C7_ZeroAreaImage ==
    /\ (IsCreate /\ Argc >= 5 /\ ZeroArea(Arg(last.argv, 2)))
       => /\ tk_item.icon = last.pre.icon
          /\ (last.code = "TCL_ERROR"
                => ~Converts(Arg(last.argv, 3)) /\ last.msg = <<M_tooltip>>)
    /\ (IsModify /\ Argc >= 4 /\ Arg(last.argv, 2) = S_image
            /\ ZeroArea(Arg(last.argv, 3)))
       => /\ tk_item.icon = last.pre.icon
          /\ last.code = "TCL_OK"

\* a successful create with a zero-area image has left an earlier image in place
C7_Witness ==
    /\ IsCreate /\ Argc >= 5 /\ ZeroArea(Arg(last.argv, 2))
    /\ last.code = "TCL_OK"
    /\ ~last.pre.icon.isNil
    /\ tk_item.icon = last.pre.icon

C10_DisposeOnce ==
    /\ tk_item.removeCalls <= 1
    /\ (Tray /\ SentSet \cap {"setImagewithImage", "setTextwithString"} # {})
       => last.pre.removeCalls = 0
    /\ last.op = "click" => last.pre.removeCalls = 0
====
